---------------------------- MODULE Spec2Model ----------------------------
(***************************************************************************)
(* Model of src/ipv4.c: the Internet checksum (ipv4_checksum), the send    *)
(* path (ipv4_send) and the receive path (ipv4_receive).                   *)
(*                                                                         *)
(* Memory is modelled as sequences of bytes (index 0 of the C code is      *)
(* element 1 of the sequence).  Every call is one action; the result of    *)
(* the last send is kept in tx, of the last receive in rx.  The byte order *)
(* of the host is chosen once, in Init.  Out-of-bounds accesses are        *)
(* undefined behaviour: the action draws the outcome from the outcomes a   *)
(* build can produce (the access goes through on flat memory, the bytes    *)
(* outside the object are someone else's, or the process dies).            *)
(***************************************************************************)
EXTENDS Integers, Sequences, FiniteSets, TLC

VARIABLES little_endian, tx, rx

vars == <<little_endian, tx, rx>>

---------------------------------------------------------------------------
(* Program constants *)

BufSize == 2048          \* unsigned char buffer[2048], ethernet_buffer[2048]
HeaderSize == 20         \* sizeof(struct ipv4_header)
EthHeaderSize == 14      \* 6 + 6 + 2 bytes written before the IP packet
VersionIhl == 69         \* (4 << 4) | 5
DefaultTtl == 64
EtherTypeIpv4 == 2048    \* 0x0800
ProtoIcmp == 1
BroadcastIp == <<255, 255, 255, 255>>   \* 0xFFFFFFFF
HexDumpMax == 16

U16 == 65536             \* 2^16: the range of a uint16_t

(* Offsets of the fields of struct ipv4_header (ipv4.h, wire layout). *)
OffVersionIhl == 0
OffTotalLength == 2
OffProtocol == 9
OffChecksum == 10
OffSource == 12
OffDestination == 16

---------------------------------------------------------------------------
(* Bounds of the model *)

MaxSmallLen == 3         \* payloads of every length 0..MaxSmallLen
MaxFlipIndex == 1        \* payload bytes 0..MaxFlipIndex may be altered

---------------------------------------------------------------------------
(* Bytes and integers in memory *)

Min(a, b) == IF a < b THEN a ELSE b

Pow2(k) == 2 ^ k

\* byte b with bit k inverted
FlipBit(b, k) == IF (b \div Pow2(k)) % 2 = 1 THEN b - Pow2(k) ELSE b + Pow2(k)

\* memory image of a uint16_t value on this host
Bytes16(v) ==
    IF little_endian THEN <<v % 256, v \div 256>>
                     ELSE <<v \div 256, v % 256>>

\* A uint32_t address is only ever copied and compared for equality, and the
\* callers keep it in network byte order: it is modelled by its four bytes in
\* memory, which is the same on every host.
Bytes32(v) == v

\* value of the uint16_t stored at byte offset off of mem
Load16(mem, off) ==
    IF little_endian THEN mem[off + 1] + 256 * mem[off + 2]
                     ELSE 256 * mem[off + 1] + mem[off + 2]

Load32(mem, off) == SubSeq(mem, off + 1, off + 4)

\* htons / ntohs: the argument is converted to uint16_t, then byte-swapped on
\* a little-endian host
htons(x) ==
    LET v == x % U16
    IN IF little_endian THEN (v % 256) * 256 + (v \div 256) ELSE v

ntohs(x) == htons(x)

\* mem with the byte at offset off replaced by b
PokeByte(mem, off, b) == [mem EXCEPT ![off + 1] = b]

---------------------------------------------------------------------------
(* ipv4_checksum *)

\* the while (length > 1) loop and the odd last byte: sum of the 16-bit
\* words, in a uint32_t (which no input of at most 2^16 bytes overflows)
RECURSIVE SumWords(_, _, _, _)
SumWords(data, off, length, sum) ==
    IF length > 1
    THEN SumWords(data, off + 2, length - 2, sum + Load16(data, off))
    ELSE IF length > 0 THEN sum + data[off + 1]
                       ELSE sum

\* the while (sum >> 16) loop
RECURSIVE FoldCarries(_)
FoldCarries(sum) ==
    IF sum \div U16 # 0 THEN FoldCarries((sum % U16) + (sum \div U16))
                        ELSE sum

\* faulty variant: the folded sum is returned without being complemented
ipv4_checksum_uncomplemented(data, length) ==
    FoldCarries(SumWords(data, 0, length, 0)) % U16

ipv4_checksum(data, length) ==
    (U16 - 1) - (FoldCarries(SumWords(data, 0, length, 0)) % U16)

---------------------------------------------------------------------------
(* Inputs *)

\* nic_device_t: ip_address is a uint32_t kept in network byte order,
\* mac_address six bytes
NicA == [ip_address |-> <<192, 168, 1, 10>>, mac_address |-> <<2, 0, 0, 0, 0, 1>>]

NicB == [ip_address |-> <<255, 0, 168, 192>>, mac_address |-> <<2, 0, 0, 0, 0, 2>>]

Devices == {NicA, NicB}

\* an address no device of the model has
ForeignAddrs == {<<10, 0, 1, 1>>}

DestAddrs == {d.ip_address : d \in Devices} \cup {BroadcastIp} \cup ForeignAddrs

Protocols == {ProtoIcmp, 17}

Pattern(n, seed) == [i \in 1..n |-> (seed + 37 * i) % 256]

Zeros(n) == [i \in 1..n |-> 0]

SmallLens == (0..MaxSmallLen) \cup {8}

\* the lengths around the capacity of the two buffers and around the 16-bit
\* wrap of total_length
LargeLens ==
    { BufSize - HeaderSize - EthHeaderSize,         \* 2014: fills ethernet_buffer
      BufSize - HeaderSize - EthHeaderSize + 1,     \* 2015: one byte past ethernet_buffer
      BufSize - HeaderSize + 1,                     \* 2029: one byte past buffer
      U16 - 1 - HeaderSize,                         \* 65515: total_length = 65535
      U16 - HeaderSize,                             \* 65516: total_length wraps to 0
      U16 - 1 }                                     \* 65535: largest uint16_t

\* the arguments of ipv4_send: every combination for the small payloads, one
\* sender and destination for the large ones
SendInputs ==
    { [nic |-> n, dst_ip |-> d, protocol |-> p, payload |-> Pattern(l, 17)] :
        n \in Devices, d \in DestAddrs, p \in Protocols, l \in SmallLens }
    \cup
    { [nic |-> NicA, dst_ip |-> NicB.ip_address, protocol |-> p, payload |-> Pattern(l, 17)] :
        p \in Protocols, l \in LargeLens }

\* what an out-of-bounds write of ipv4_send can lead to
SendOutcomes == {"flat", "clobber", "segv", "abort"}

\* the value of the bytes that are not the frame's own
Filler == CHOOSE b \in {204} : TRUE

---------------------------------------------------------------------------
(* ipv4_send *)

\* lines 37-47 and 50: the header with header_checksum = 0
HeaderZeroChecksum(nic, dst_ip, protocol, payload_len) ==
    <<VersionIhl, 0>>
    \o Bytes16(htons(HeaderSize + payload_len))
    \o Bytes16(htons(0))
    \o Bytes16(0)
    \o <<DefaultTtl, protocol>>
    \o Bytes16(0)
    \o Bytes32(nic.ip_address)
    \o Bytes32(dst_ip)

\* line 51: header_checksum = ipv4_checksum(ip_hdr, sizeof(struct ipv4_header))
BuildHeader(nic, dst_ip, protocol, payload_len) ==
    LET h0 == HeaderZeroChecksum(nic, dst_ip, protocol, payload_len)
        c == Bytes16(ipv4_checksum(h0, HeaderSize))
    IN PokeByte(PokeByte(h0, OffChecksum, c[1]), OffChecksum + 1, c[2])

\* lines 62-65: broadcast destination, source MAC, ethertype
EthernetHeader(nic) ==
    <<255, 255, 255, 255, 255, 255>> \o nic.mac_address
    \o Bytes16(htons(EtherTypeIpv4))

\* line 68: uint16_t ip_packet_len = sizeof(struct ipv4_header) + payload_len
IpPacketLen(payload_len) == (HeaderSize + payload_len) % U16

\* line 54 writes payload_len bytes at buffer + 20; line 69 reads
\* ip_packet_len bytes of buffer and writes them at ethernet_buffer + 14
SendOverflows(payload_len) ==
    \/ HeaderSize + payload_len > BufSize
    \/ IpPacketLen(payload_len) > BufSize
    \/ EthHeaderSize + IpPacketLen(payload_len) > BufSize

\* the bytes send_packet finds at ethernet_buffer[0 .. len-1]
DriverFrame(nic, hdr, payload, outcome) ==
    LET n == IpPacketLen(Len(payload))
        flat == EthernetHeader(nic) \o SubSeq(hdr \o payload, 1, n)
    IN IF outcome = "clobber"
       THEN [i \in 1..Len(flat) |-> IF i > BufSize THEN Filler ELSE flat[i]]
       ELSE flat

TxNone ==
    [called |-> FALSE, nic |-> <<>>, dst_ip |-> <<>>, protocol |-> 0,
     payload |-> <<>>, hdr |-> <<>>, oob_write |-> FALSE, status |-> "none",
     calls |-> <<>>]

\* the state after ipv4_send(in.nic, in.dst_ip, in.protocol, in.payload,
\* Len(in.payload)); outcome is only consulted when a copy leaves its buffer
ipv4_send_result(in, outcome) ==
    LET plen == Len(in.payload)
        hdr == BuildHeader(in.nic, in.dst_ip, in.protocol, plen)
        over == SendOverflows(plen)
        call == [nic |-> in.nic,
                 frame |-> DriverFrame(in.nic, hdr, in.payload, outcome),
                 len |-> IpPacketLen(plen) + EthHeaderSize]
    IN [called |-> TRUE, nic |-> in.nic, dst_ip |-> in.dst_ip,
        protocol |-> in.protocol, payload |-> in.payload, hdr |-> hdr,
        oob_write |-> over,
        status |-> IF over /\ outcome \in {"segv", "abort"}
                   THEN "crashed" ELSE "returned",
        calls |-> IF over /\ outcome = "segv" THEN <<>> ELSE <<call>>]

---------------------------------------------------------------------------
(* ipv4_receive *)

\* faulty variant: the integrity check of line 82 is missing
header_valid_skipped(mem) == TRUE

\* line 82: ipv4_checksum(hdr, sizeof(struct ipv4_header)) == 0
header_valid(mem) == ipv4_checksum(mem, HeaderSize) = 0

\* faulty variant: the filter of line 87 lets every unicast destination through
dest_accepted_any(dst, nic) == dst = nic.ip_address \/ dst # nic.ip_address

\* line 87: destination_address is the device's address or 0xFFFFFFFF
dest_accepted(dst, nic) == dst = nic.ip_address \/ dst = BroadcastIp

\* line 92: uint16_t ip_hdr_len = (hdr->version_ihl & 0x0F) * 4
IpHdrLen(mem) == (mem[OffVersionIhl + 1] % 16) * 4

\* line 94: uint16_t payload_len = ntohs(hdr->total_length) - ip_hdr_len
PayloadLen(mem) ==
    (ntohs(Load16(mem, OffTotalLength)) + U16 - IpHdrLen(mem)) % U16

\* lines 108-114: the number of payload bytes the hex dump reads
DumpCount(payload_len) == Min(payload_len, HexDumpMax)

Dropped(outcome, oob) ==
    [outcome |-> outcome, icmp |-> <<>>, fallback |-> <<>>, oob_read |-> oob,
     crashed |-> outcome = "crash"]

\* ipv4_receive(nic, packet, len): mem holds the bytes that can be read from
\* packet on, its first len bytes being the frame; a read at or beyond
\* Len(mem) kills the process
ipv4_receive_result(nic, mem, len) ==
    IF Len(mem) < HeaderSize THEN Dropped("crash", TRUE)
    ELSE IF ~header_valid(mem) THEN Dropped("drop_checksum", len < HeaderSize)
    ELSE IF ~dest_accepted(Load32(mem, OffDestination), nic)
         THEN Dropped("drop_dest", len < HeaderSize)
    ELSE
      LET ip_hdr_len == IpHdrLen(mem)
          payload_len == PayloadLen(mem)
          src == Load32(mem, OffSource)
          protocol == mem[OffProtocol + 1]
          n == DumpCount(payload_len)
          readable == Min(n, IF Len(mem) > ip_hdr_len
                             THEN Len(mem) - ip_hdr_len ELSE 0)
      IN IF protocol = ProtoIcmp
         THEN [outcome |-> "icmp",
               icmp |-> <<[nic |-> nic, src_ip |-> src,
                           payload_off |-> ip_hdr_len,
                           payload_len |-> payload_len]>>,
               fallback |-> <<>>,
               oob_read |-> len < HeaderSize,
               crashed |-> FALSE]
         ELSE [outcome |-> "fallback",
               icmp |-> <<>>,
               fallback |-> <<[src_text |-> SubSeq(mem, OffSource + 1, OffSource + 4),
                               protocol |-> protocol,
                               payload_off |-> ip_hdr_len,
                               payload_len |-> payload_len,
                               hex |-> SubSeq(mem, ip_hdr_len + 1,
                                              ip_hdr_len + readable)]>>,
               oob_read |-> len < HeaderSize \/ (n > 0 /\ ip_hdr_len + n > len),
               crashed |-> readable < n]

RxNone ==
    [called |-> FALSE, origin |-> "none", nic |-> <<>>, mem |-> <<>>, len |-> 0,
     result |-> Dropped("none", FALSE), prev |-> <<>>]

RxAfter(origin, nic, mem, len, prev) ==
    [called |-> TRUE, origin |-> origin, nic |-> nic, mem |-> mem, len |-> len,
     result |-> ipv4_receive_result(nic, mem, len), prev |-> prev]

---------------------------------------------------------------------------
(* Frames handed to ipv4_receive *)

\* the IPv4 packet of the frame the driver was given: the frame minus its
\* Ethernet header
WirePacket == SubSeq(tx.calls[1].frame, EthHeaderSize + 1, tx.calls[1].len)

\* what lies in memory behind a frame of len bytes: nothing that can be read,
\* zeroes, or the rest of an earlier frame (full) left in the same buffer
Tails(full, len) ==
    { <<>>, Zeros(HeaderSize + HexDumpMax), SubSeq(full, len + 1, Len(full)) }

\* the fields of a header written by a peer
CraftInputs ==
    [version_ihl : {VersionIhl, VersionIhl + 1, VersionIhl - 1},
     total_length : {10, HeaderSize, HeaderSize + 8, 2 * HeaderSize},
     protocol : Protocols,
     source_address : {NicA.ip_address},
     destination_address : DestAddrs,
     checksum_ok : BOOLEAN,
     payload : {Pattern(0, 5), Pattern(8, 5)}]

CraftHeader(f) ==
    LET h0 == <<f.version_ihl, 0>>
              \o Bytes16(htons(f.total_length))
              \o Bytes16(0) \o Bytes16(0)
              \o <<DefaultTtl, f.protocol>>
              \o Bytes16(0)
              \o Bytes32(f.source_address)
              \o Bytes32(f.destination_address)
        c == Bytes16(ipv4_checksum(h0, HeaderSize))
        good == PokeByte(PokeByte(h0, OffChecksum, c[1]), OffChecksum + 1, c[2])
    IN IF f.checksum_ok THEN good
       ELSE PokeByte(good, OffChecksum, FlipBit(good[OffChecksum + 1], 0))

\* the lengths a crafted frame is received with: whole, or cut short
CraftLens(full) == {l \in {0, OffSource, HeaderSize - 1, HeaderSize} : l < Len(full)}
                   \cup {Len(full)}

---------------------------------------------------------------------------
(* Actions: one per call.  The calls share no state (every buffer is local *)
(* to its call), so a behaviour is one scenario: a call on fresh inputs,   *)
(* followed by the deliveries of what that call produced.                  *)

Fresh == ~tx.called /\ ~rx.called

Init ==
    /\ little_endian \in BOOLEAN
    /\ tx = TxNone
    /\ rx = RxNone

\* ipv4_send(nic, dst_ip, protocol, payload, payload_len)
Send ==
    /\ Fresh
    /\ \E in \in SendInputs, outcome \in SendOutcomes :
        /\ SendOverflows(Len(in.payload)) \/ outcome = "flat"
        /\ tx' = ipv4_send_result(in, outcome)
        /\ rx' = RxNone
    /\ UNCHANGED little_endian

\* the packet of the frame just sent reaches ipv4_receive of a device
Deliver ==
    /\ tx.calls # <<>>
    /\ ~rx.called
    /\ \E nic \in Devices :
         \E tail \in Tails(tx.hdr, Len(WirePacket)) :
            rx' = RxAfter("wire", nic, WirePacket \o tail, Len(WirePacket), <<>>)
    /\ UNCHANGED <<little_endian, tx>>

\* the same, with bit k of the header_checksum field inverted on the way
DeliverChecksumFlipped ==
    /\ tx.calls # <<>>
    /\ ~rx.called
    /\ Len(WirePacket) >= HeaderSize
    /\ \E nic \in Devices, k \in 0..15 :
         LET off == OffChecksum + (k \div 8)
             mem == PokeByte(WirePacket, off, FlipBit(WirePacket[off + 1], k % 8))
         IN rx' = RxAfter("wire_checksum_flipped", nic, mem, Len(mem), <<>>)
    /\ UNCHANGED <<little_endian, tx>>

\* ipv4_receive on a frame written by a peer
ReceiveCrafted ==
    /\ Fresh
    /\ \E nic \in Devices, f \in CraftInputs :
         LET full == CraftHeader(f) \o f.payload
         IN \E len \in CraftLens(full) :
              \E tail \in Tails(full, len) :
                 rx' = RxAfter("crafted", nic, SubSeq(full, 1, len) \o tail, len, <<>>)
    /\ tx' = TxNone
    /\ UNCHANGED little_endian

\* the frame just received arrives again with one byte behind the 20 header
\* bytes altered
ReceivePayloadFlipped ==
    /\ rx.called
    /\ rx.origin \in {"wire", "crafted"}
    /\ \E i \in 0..MaxFlipIndex, k \in {0, 7} :
         /\ HeaderSize + i < rx.len
         /\ rx' = RxAfter("payload_flipped", rx.nic,
                          PokeByte(rx.mem, HeaderSize + i,
                                   FlipBit(rx.mem[HeaderSize + i + 1], k)),
                          rx.len, <<rx.result>>)
    /\ UNCHANGED <<little_endian, tx>>

Next ==
    \/ Send
    \/ Deliver
    \/ DeliverChecksumFlipped
    \/ ReceiveCrafted
    \/ ReceivePayloadFlipped

Spec == Init /\ [][Next]_vars

---------------------------------------------------------------------------
(* Vocabulary of the properties.  The header fields are decoded here from  *)
(* the bytes on the wire (big-endian), independently of Load16 and ntohs.  *)

Dispatched == rx.result.icmp # <<>> \/ rx.result.fallback # <<>>

HeaderRead == Len(rx.mem) >= HeaderSize

WireTotalLength(mem) == 256 * mem[OffTotalLength + 1] + mem[OffTotalLength + 2]

WireIhl(mem) == mem[OffVersionIhl + 1] % 16

WireDestination(mem) == <<mem[17], mem[18], mem[19], mem[20]>>

WireSource(mem) == <<mem[13], mem[14], mem[15], mem[16]>>

\* the (payload offset, payload length) pairs computed by lines 92-94 and
\* used by either branch of the dispatch
Deliveries ==
    [i \in 1..(Len(rx.result.icmp) + Len(rx.result.fallback)) |->
        IF i <= Len(rx.result.icmp)
        THEN [off |-> rx.result.icmp[i].payload_off,
              len |-> rx.result.icmp[i].payload_len,
              src |-> rx.result.icmp[i].src_ip,
              protocol |-> ProtoIcmp]
        ELSE LET f == rx.result.fallback[i - Len(rx.result.icmp)]
             IN [off |-> f.payload_off, len |-> f.payload_len,
                 src |-> f.src_text, protocol |-> f.protocol]]

SendWithinCapacity ==
    tx.called /\ Len(tx.payload) + HeaderSize + EthHeaderSize <= BufSize

---------------------------------------------------------------------------
(* Properties *)

\* C1: round trip.  When the IPv4 packet ipv4_send handed to the driver is
\* passed to ipv4_receive on a device whose ip_address is the destination D,
\* the receive path recovers payload P with its length, protocol T and the
\* sender's ip_address as source.
C1_RoundTrip ==
    (rx.called /\ rx.origin = "wire" /\ rx.nic.ip_address = tx.dst_ip) =>
        /\ Len(Deliveries) = 1
        /\ Deliveries[1].len = Len(tx.payload)
        /\ Deliveries[1].off + Deliveries[1].len <= rx.len
        /\ SubSeq(rx.mem, Deliveries[1].off + 1,
                  Deliveries[1].off + Deliveries[1].len) = tx.payload
        /\ Deliveries[1].protocol = tx.protocol
        /\ Deliveries[1].src = tx.nic.ip_address
        /\ (tx.protocol = ProtoIcmp <=> rx.result.icmp # <<>>)

\* the same for the payloads that fit the frame buffers
RoundTripWithinCapacity == SendWithinCapacity => C1_RoundTrip

C3_ForeignDestinationDropped ==
    (rx.called /\ HeaderRead
     /\ WireDestination(rx.mem) # rx.nic.ip_address
     /\ WireDestination(rx.mem) # BroadcastIp)
        => ~Dispatched

C3_Witness ==
    /\ rx.called /\ rx.len >= HeaderSize
    /\ ipv4_checksum(rx.mem, HeaderSize) = 0
    /\ WireDestination(rx.mem) # rx.nic.ip_address
    /\ WireDestination(rx.mem) # BroadcastIp
    /\ rx.mem[OffProtocol + 1] = ProtoIcmp
    /\ rx.result.outcome = "drop_dest"

\* C4: a packet whose 20 header bytes do not checksum to zero is dropped
\* before any dispatch; inverting any single bit of the header_checksum field
\* of a valid packet sent by ipv4_send gives such a packet.
C4_BadChecksumDropped ==
    /\ (rx.called /\ HeaderRead /\ ipv4_checksum(rx.mem, HeaderSize) # 0)
          => ~Dispatched
    /\ (rx.called /\ rx.origin = "wire_checksum_flipped")
          => (~Dispatched /\ rx.result.outcome = "drop_checksum")

C4_Witness ==
    /\ rx.called /\ rx.origin = "wire_checksum_flipped"
    /\ rx.nic.ip_address = tx.dst_ip
    /\ rx.result.outcome = "drop_checksum"

\* C5: ipv4_receive called with len < 20 rejects the frame without reading
\* a byte of packet at an index >= len and without dispatching.
C5_ShortFrameRejected ==
    (rx.called /\ rx.len < HeaderSize) => (~rx.result.oob_read /\ ~Dispatched)

\* C6: a malformed packet (IHL not 5, total_length smaller than the header
\* length, or total_length larger than len) is never dispatched, and no
\* payload length larger than len minus the header length is passed on.
C6_MalformedNeverDispatched ==
    /\ (rx.called /\ rx.len >= HeaderSize
        /\ \/ WireIhl(rx.mem) # 5
           \/ WireTotalLength(rx.mem) < 4 * WireIhl(rx.mem)
           \/ WireTotalLength(rx.mem) > rx.len)
          => ~Dispatched
    /\ rx.called =>
          \A i \in 1..Len(Deliveries) :
              Deliveries[i].len <= rx.len - Deliveries[i].off

\* C7: for every payload_len with payload_len + 20 + 14 > 2048, ipv4_send
\* writes past no buffer and does not call send_packet.
C7_OversizedSendRejected ==
    (tx.called /\ Len(tx.payload) + HeaderSize + EthHeaderSize > BufSize)
        => (~tx.oob_write /\ tx.calls = <<>>)

\* C8: for a packet with a valid header checksum and an accepted destination,
\* protocol 1 leads to exactly one icmp_receive call, with the device, the
\* header's source_address, payload offset IHL*4 and payload length
\* total_length - IHL*4, and any other protocol to none; altering payload
\* bytes changes neither whether nor with which length it is delivered.
C8_IcmpDispatch ==
    /\ (rx.called /\ rx.len >= HeaderSize
        /\ ipv4_checksum(rx.mem, HeaderSize) = 0
        /\ WireDestination(rx.mem) \in {rx.nic.ip_address, BroadcastIp})
          => IF rx.mem[OffProtocol + 1] = ProtoIcmp
             THEN /\ Len(rx.result.icmp) = 1
                  /\ rx.result.icmp[1].nic = rx.nic
                  /\ rx.result.icmp[1].src_ip = WireSource(rx.mem)
                  /\ rx.result.icmp[1].payload_off = 4 * WireIhl(rx.mem)
                  /\ rx.result.icmp[1].payload_len =
                        WireTotalLength(rx.mem) - 4 * WireIhl(rx.mem)
             ELSE rx.result.icmp = <<>>
    /\ (rx.called /\ rx.origin = "payload_flipped")
          => /\ rx.result.outcome = rx.prev[1].outcome
             /\ rx.result.icmp = rx.prev[1].icmp
             /\ Len(rx.result.fallback) = Len(rx.prev[1].fallback)
             /\ \A i \in 1..Len(rx.result.fallback) :
                   rx.result.fallback[i].payload_len
                      = rx.prev[1].fallback[i].payload_len

\* C9: every call of ipv4_send calls send_packet exactly once, with a frame of
\* broadcast destination, the device's MAC as source, ethertype 08 00, the
\* 20-byte header, then the payload, and with length payload_len + 34.
C9_FrameLayout ==
    tx.called =>
        /\ Len(tx.calls) = 1
        /\ tx.calls[1].nic = tx.nic
        /\ tx.calls[1].len = Len(tx.payload) + HeaderSize + EthHeaderSize
        /\ Len(tx.calls[1].frame) = tx.calls[1].len
        /\ SubSeq(tx.calls[1].frame, 1, 6) = <<255, 255, 255, 255, 255, 255>>
        /\ SubSeq(tx.calls[1].frame, 7, 12) = tx.nic.mac_address
        /\ SubSeq(tx.calls[1].frame, 13, 14) = <<8, 0>>
        /\ SubSeq(tx.calls[1].frame, 15, 34) = tx.hdr
        /\ SubSeq(tx.calls[1].frame, 35, tx.calls[1].len) = tx.payload

\* the same for the payloads that fit the frame buffers
FrameLayoutWithinCapacity == SendWithinCapacity => C9_FrameLayout

\* C10: the total_length of the sent header, decoded from network byte order,
\* is 20 + payload_len without 16-bit wrap-around, the length handed to the
\* driver is total_length + 14, and version/IHL = 0x45, type_of_service = 0,
\* identification = 0, flags/fragment offset = 0, TTL = 64.
C10_TotalLength ==
    tx.called =>
        /\ WireTotalLength(tx.hdr) = HeaderSize + Len(tx.payload)
        /\ \A i \in 1..Len(tx.calls) :
              tx.calls[i].len = WireTotalLength(tx.hdr) + EthHeaderSize
        /\ SubSeq(tx.hdr, 1, 2) = <<69, 0>>
        /\ SubSeq(tx.hdr, 5, 9) = <<0, 0, 0, 0, 64>>

\* the same for the payloads that fit the frame buffers
TotalLengthWithinCapacity == SendWithinCapacity => C10_TotalLength

\* with the length check C6 asks for, line 94 cannot wrap: the payload length
\* passed on is total_length - IHL*4 whenever that is not negative
IcmpDispatchWellFormed ==
    (rx.called /\ rx.len >= HeaderSize
     /\ WireTotalLength(rx.mem) >= 4 * WireIhl(rx.mem)) => C8_IcmpDispatch

===========================================================================
